---- MODULE Spec2Model ----
(***************************************************************************)
(* Model of the NoteOCR backend (src/index.js): the POST /ocr pipeline     *)
(* (multer upload, convertToJPEG, downscaleImage, Document AI call, DOCX   *)
(* build, DocumentModel.create, cleanup) split at its awaits, and the      *)
(* GET / PATCH / DELETE /documents handlers over the DocumentModel         *)
(* collection.  Strings whose shape matters (file names, urls, OCR text)   *)
(* are sequences of one-character strings.                                 *)
(***************************************************************************)
EXTENDS Integers, Sequences, FiniteSets, TLC

VARIABLES
    now,        \* Date.now(): the clock, in ticks
    files,      \* the upload directory: file name -> [data, size]
    db,         \* the DocumentModel collection: _id -> record
    nextId,     \* the next _id the store hands out
    reqs,       \* the POST /ocr requests: slot -> handler state
    writes,     \* log of fs.writeFileSync(docPath, ...) calls: <<slot, file name>>
    lastCrud,   \* the latest GET/PATCH/DELETE /documents request and its response
    ocrIn,      \* Document Builder: the OCR result it is applied to
    built       \* Document Builder: the paragraphs built from ocrIn

vars == <<now, files, db, nextId, reqs, writes, lastCrud, ocrIn, built>>

(***************************************************************************)
(* Bounds of the model.                                                    *)
(***************************************************************************)
MaxPosts == 2       \* POST /ocr requests
MaxTime == 1        \* clock ticks
MaxNodes == 8       \* pages + paragraphs + text segments of an OCR result

TicksPerDay == 1    \* a tick is a day: tick 0 is the first day, tick 1 the next, ...

Missing == -1       \* an absent (undefined) numeric field of the OCR response

(***************************************************************************)
(* Character strings.                                                      *)
(***************************************************************************)
Digits == <<"0", "1", "2", "3", "4", "5", "6", "7", "8", "9">>

RECURSIVE ToStr(_)
\* String(n) for n >= 0
ToStr(n) ==
    IF n < 10 THEN <<Digits[n + 1]>>
    ELSE ToStr(n \div 10) \o <<Digits[(n % 10) + 1]>>

\* n.toString().padStart(2, "0")
Pad2(n) == IF n < 10 THEN <<"0">> \o ToStr(n) ELSE ToStr(n)

Min(a, b) == IF a < b THEN a ELSE b

Includes(s, c) == \E i \in 1..Len(s) : s[i] = c

EndsWith(s, suffix) ==
    /\ Len(s) >= Len(suffix)
    /\ SubSeq(s, Len(s) - Len(suffix) + 1, Len(s)) = suffix

\* position of the last "." of s, 0 when there is none
LastDot(s) ==
    LET dots == {i \in 1..Len(s) : s[i] = "."}
    IN  IF dots = {} THEN 0 ELSE CHOOSE i \in dots : \A j \in dots : j <= i

\* path.extname(p).toLowerCase(); the modelled names are lower case already
ExtName(p) ==
    LET d == LastDot(p)
    IN  IF d <= 1 THEN <<>> ELSE SubSeq(p, d, Len(p))

\* p.replace(/\.[^.]+$/, repl)
ReplaceExt(p, repl) ==
    LET d == LastDot(p)
    IN  IF d = 0 \/ d = Len(p) THEN p ELSE SubSeq(p, 1, d - 1) \o repl

JsSliceOffByOne(s, start, end) ==
    LET from == Min(start, Len(s))
        to == Min(end + 1, Len(s))
    IN  IF from < to THEN SubSeq(s, from + 1, to) ELSE <<>>

\* String.prototype.slice(start, end) for start, end >= 0
JsSlice(s, start, end) ==
    LET from == Min(start, Len(s))
        to == Min(end, Len(s))
    IN  IF from < to THEN [i \in 1..(to - from) |-> s[from + i]] ELSE <<>>

(***************************************************************************)
(* Document Builder (the DOCX build of POST /ocr).                         *)
(***************************************************************************)
FontSize == 24
SpacingAfter == 200
ConfThreshold == 90     \* 0.9, confidences are in hundredths

\* parseInt(x || "0")
ParseIndex(x) == IF x = Missing THEN 0 ELSE x

\* the TextRun built from one text segment
MkTextRun(text, para, segment) ==
    LET start == ParseIndex(segment.startIndex)
        end == ParseIndex(segment.endIndex)
        wordText == JsSlice(text, start, end)
    IN  [text |-> wordText \o <<" ">>,
         bold |-> (para.confidence # Missing /\ para.confidence > ConfThreshold),
         italics |-> Includes(wordText, "_"),
         font |-> "Arial",
         size |-> FontSize]

\* the Paragraph built from one OCR paragraph
MkParagraph(text, para) ==
    [children |-> [j \in 1..Len(para.segs) |-> MkTextRun(text, para, para.segs[j])],
     alignment |-> "center",
     after |-> SpacingAfter]

RECURSIVE BuildParagraphs(_, _)
\* paragraphs after (doc.pages || []).forEach(page => (page.paragraphs || []).forEach(...))
BuildParagraphs(text, pages) ==
    IF pages = <<>> THEN <<>>
    ELSE [q \in 1..Len(Head(pages)) |-> MkParagraph(text, Head(pages)[q])]
         \o BuildParagraphs(text, Tail(pages))

\* new Document({ sections: [{ children: paragraphs }] })
BuildDocx(doc) == [sections |-> <<BuildParagraphs(doc.text, doc.pages)>>]

\* OCR results given to the Document Builder: the service's response
\* grows page by page, paragraph by paragraph, segment by segment
TestTexts == {<<"a", "_">>, <<"a", "b", "c">>}
TestSegments ==
    {[startIndex |-> Missing, endIndex |-> 1],
     [startIndex |-> 1, endIndex |-> 3],
     [startIndex |-> 2, endIndex |-> Missing]}
TestConfs == {Missing, 95}

RECURSIVE SumLen(_)
SumLen(ss) == IF ss = <<>> THEN 0 ELSE Len(Head(ss)) + SumLen(Tail(ss))

RECURSIVE Sum(_)
Sum(ns) == IF ns = <<>> THEN 0 ELSE Head(ns) + Sum(Tail(ns))

\* pages + paragraphs + text segments of an OCR result
Nodes(pages) ==
    Len(pages) + SumLen(pages)
    + Sum([p \in 1..Len(pages) |-> SumLen([q \in 1..Len(pages[p]) |-> pages[p][q].segs])])

SetLast(s, x) == [s EXCEPT ![Len(s)] = x]
Last(s) == s[Len(s)]

InitOcr ==
    /\ ocrIn \in [text : TestTexts, pages : {<<>>}]
    /\ built = BuildParagraphs(ocrIn.text, ocrIn.pages)

Rebuild(pages) ==
    /\ Nodes(ocrIn.pages) < MaxNodes
    /\ ocrIn' = [ocrIn EXCEPT !.pages = pages]
    /\ built' = BuildParagraphs(ocrIn.text, pages)

AddPage == Rebuild(Append(ocrIn.pages, <<>>))

AddParagraph ==
    /\ ocrIn.pages # <<>>
    /\ \E c \in TestConfs :
          Rebuild(SetLast(ocrIn.pages,
                          Append(Last(ocrIn.pages), [confidence |-> c, segs |-> <<>>])))

AddSegment ==
    /\ ocrIn.pages # <<>>
    /\ Last(ocrIn.pages) # <<>>
    /\ \E g \in TestSegments :
          LET page == Last(ocrIn.pages)
              para == Last(page)
          IN  Rebuild(SetLast(ocrIn.pages,
                              SetLast(page, [para EXCEPT !.segs = Append(@, g)])))

(***************************************************************************)
(* Environment values.                                                     *)
(***************************************************************************)
Users == {"u1", "u2"}

\* a userId as a request carries it: absent, a string, or (JSON bodies,
\* express.json()) the object {"$ne": val}, which Mongoose passes to MongoDB
\* as a query operator
Absent == [kind |-> "absent", val |-> ""]
Str(u) == [kind |-> "str", val |-> u]
Ne(u) == [kind |-> "ne", val |-> u]

FormUserIds == {Absent} \cup {Str(u) : u \in Users}
JsonUserIds == FormUserIds \cup {Ne("")}

FalsyNever(userId) == FALSE

\* !userId
Falsy(userId) == userId.kind = "absent" \/ (userId.kind = "str" /\ userId.val = "")

SizeLimit == 20 * 1024 * 1024
ConvertibleExts ==
    {<<".", "h", "e", "i", "c">>, <<".", "h", "e", "i", "f">>, <<".", "p", "n", "g">>,
     <<".", "t", "i", "f", "f">>, <<".", "t", "i", "f">>, <<".", "g", "i", "f">>}

\* the uploads of the model: file.originalname and the file's size
Uploads ==
    {[orig |-> <<"a", ".", "j", "p", "g">>, size |-> SizeLimit],
     [orig |-> <<"a", ".", "j", "p", "g">>, size |-> SizeLimit + 1],
     [orig |-> <<"a", ".", "p", "n", "g">>, size |-> SizeLimit]}
PlainUploads == {[orig |-> <<"a", ".", "j", "p", "g">>, size |-> SizeLimit]}
OutSizes == {SizeLimit, SizeLimit + 1}

\* process.env.SERVER_URL
ServerUrl == <<"h", "t", "t", "p", ":", "/", "/", "s">>

\* what processDocument returns in the system model (index 0: it throws)
OcrDocs ==
    <<[text |-> <<"a", "_">>,
       pages |-> <<<<[confidence |-> 95,
                      segs |-> <<[startIndex |-> Missing, endIndex |-> 2]>>]>>>>],
      [text |-> <<"b">>,
       pages |-> <<>>]>>

NewNames == {<<"n">>}

\* the calendar date at tick t
DateAt(t) ==
    LET n == t \div TicksPerDay
    IN  IF n = 0 THEN [day |-> 31, month |-> 12, year |-> 2025]
        ELSE [day |-> n, month |-> 1, year |-> 2026]

\* Date.prototype.toLocaleDateString("en-GB"): DD/MM/YYYY
LocaleDateString(d) ==
    Pad2(d.day) \o <<"/">> \o Pad2(d.month) \o <<"/">> \o ToStr(d.year)

\* s.replace(/\//g, ".")
SlashesToDots(s) == [i \in 1..Len(s) |-> IF s[i] = "/" THEN "." ELSE s[i]]

DocFileNameNoExt(t) ==
    <<"d", "o", "c", "u", "m", "e", "n", "t", "_">>
    \o JsSlice(SlashesToDots(LocaleDateString(DateAt(t))), 0, 8)

\* `document_${new Date().toLocaleDateString("en-GB").replace(/\//g, '.').slice(0, 8)}.docx`
DocFileName(t) ==
    <<"d", "o", "c", "u", "m", "e", "n", "t", "_">>
    \o JsSlice(SlashesToDots(LocaleDateString(DateAt(t))), 0, 8)
    \o <<".", "d", "o", "c", "x">>

\* `${Date.now()}_${file.originalname}`
UploadName(t, orig) == ToStr(t) \o <<"_">> \o orig

(***************************************************************************)
(* The file system and the store.                                          *)
(***************************************************************************)
Put(f, k, v) == [x \in (DOMAIN f) \cup {k} |-> IF x = k THEN v ELSE f[x]]
Remove(f, k) == [x \in (DOMAIN f) \ {k} |-> f[x]]

WriteIfAbsent(F, name, data) ==
    IF name \in DOMAIN F THEN F ELSE Put(F, name, [data |-> data, size |-> 1])

\* fs.writeFileSync(docPath, buffer)
WriteFileSync(F, name, data) == Put(F, name, [data |-> data, size |-> 1])

NoRecord ==
    [id |-> 0, userId |-> "", name |-> <<>>, url |-> <<>>, text |-> <<>>, uploadedAt |-> 0]

MatchesAnyone(filter, owner) == filter.kind # "absent"

\* does a record whose userId is owner match the filter { userId: filter }
Matches(filter, owner) ==
    CASE filter.kind = "str" -> owner = filter.val
      [] filter.kind = "ne" -> owner # filter.val
      [] OTHER -> FALSE     \* undefined is sent as null: no record has a null userId

\* the _ids DocumentModel.find / findOne select for { _id: id, userId: filter }
FindIds(filter) == {i \in DOMAIN db : Matches(filter, db[i].userId)}

\* .sort({ uploadedAt: -1 }): the orders of ids MongoDB may return
SortedDesc(ids) ==
    {s \in [1..Cardinality(ids) -> ids] :
        /\ \A i, j \in DOMAIN s : i # j => s[i] # s[j]
        /\ \A i, j \in DOMAIN s : i < j => db[s[i]].uploadedAt >= db[s[j]].uploadedAt}

(***************************************************************************)
(* POST /ocr.                                                              *)
(***************************************************************************)
NoResp == [status |-> 0, error |-> "", text |-> <<>>, docxUrl |-> <<>>, document |-> NoRecord]
ErrResp(status, msg) == [NoResp EXCEPT !.status = status, !.error = msg]

NoDate == [day |-> 0, month |-> 0, year |-> 0]

IdleReq ==
    [pc |-> "idle", file |-> <<>>, filePath |-> <<>>, userId |-> Absent, derived |-> {},
     doc |-> 0, day |-> NoDate, docFileName |-> <<>>, stamp |-> 0, err |-> "", sends |-> 0, resp |-> NoResp]

Slots == 1..MaxPosts

\* res.status(s).json(body): the first call is the response; a later one throws
\* ERR_HTTP_HEADERS_SENT and changes nothing the client sees
Send(q, resp) ==
    [q EXCEPT !.sends = @ + 1, !.resp = IF q.sends = 0 THEN resp ELSE @]

CatchFixedMessage(q, msg) ==
    [Send(q, ErrResp(500, "OCR failed")) EXCEPT !.pc = "done", !.err = msg]

\* catch (err) { res.status(500).json({ error: err.message }) }
Catch(q, msg) ==
    [Send(q, ErrResp(500, msg)) EXCEPT !.pc = "done", !.err = msg]

\* const rawBytes = fs.readFileSync(filePath); ... await client.processDocument(request)
EnterRead(q, F) ==
    IF q.filePath \notin DOMAIN F
    THEN [req |-> Catch(q, "ENOENT"), files |-> F]
    ELSE [req |-> [q EXCEPT !.pc = "ocr"], files |-> F]

\* downscaleImage(filePath) up to its await, or through to the OCR call
EnterDownscale(q, F) ==
    IF q.filePath \notin DOMAIN F
    THEN [req |-> Catch(q, "ENOENT"), files |-> F]
    ELSE IF F[q.filePath].size > SizeLimit
    THEN [req |-> [q EXCEPT !.pc = "resizing"], files |-> F]
    ELSE EnterRead(q, F)

\* convertToJPEG(filePath) up to its await, or through to downscaleImage
EnterConvert(q, F) ==
    IF ExtName(q.filePath) \in ConvertibleExts
    THEN [req |-> [q EXCEPT !.pc = "converting"], files |-> F]
    ELSE EnterDownscale(q, F)

Commit(r, out) ==
    /\ reqs' = [reqs EXCEPT ![r] = out.req]
    /\ files' = out.files

\* multer stores the upload and the handler runs to its first await
PostArrive(r, uploads) ==
    /\ reqs[r].pc = "idle"
    /\ \A k \in 1..(r - 1) : reqs[k].pc # "idle"     \* slots are taken in order
    /\ \E hasFile \in BOOLEAN, up \in uploads, u \in FormUserIds :
          IF ~hasFile
          THEN Commit(r, [req |-> [Send(reqs[r], ErrResp(400, "No file uploaded"))
                                      EXCEPT !.pc = "done"],
                          files |-> files])
          ELSE LET name == UploadName(now, up.orig)
                   q == [reqs[r] EXCEPT !.file = name, !.filePath = name, !.userId = u]
               IN  Commit(r, EnterConvert(q, Put(files, name, [data |-> r, size |-> up.size])))
    /\ UNCHANGED <<now, db, nextId, writes, lastCrud, ocrIn, built>>

\* sharp(inputPath).jpeg({ quality: 90 }).toFile(outputPath) settles
ConvertDone(r) ==
    /\ reqs[r].pc = "converting"
    /\ LET q == reqs[r]
           outputPath == ReplaceExt(q.filePath, <<"_", "c", "o", "n", "v", "e", "r", "t", "e", "d", ".", "j", "p", "g">>)
       IN  \/ Commit(r, [req |-> Catch(q, "Input file is missing or unsupported"), files |-> files])
           \/ /\ q.filePath \in DOMAIN files
              /\ \E size \in OutSizes :
                    Commit(r, EnterDownscale(
                        [q EXCEPT !.filePath = outputPath, !.derived = @ \cup {outputPath}],
                        Put(files, outputPath, [data |-> files[q.filePath].data, size |-> size])))
    /\ UNCHANGED <<now, db, nextId, writes, lastCrud, ocrIn, built>>

\* sharp(inputPath).resize({ width: 2000 }).jpeg({ quality: 90 }).toFile(outputPath) settles
ResizeDone(r) ==
    /\ reqs[r].pc = "resizing"
    /\ LET q == reqs[r]
           outputPath == ReplaceExt(q.filePath, <<"_", "r", "e", "s", "i", "z", "e", "d", ".", "j", "p", "g">>)
       IN  \/ Commit(r, [req |-> Catch(q, "Input file is missing or unsupported"), files |-> files])
           \/ /\ q.filePath \in DOMAIN files
              /\ Commit(r, EnterRead(
                    [q EXCEPT !.filePath = outputPath, !.derived = @ \cup {outputPath}],
                    Put(files, outputPath, [data |-> files[q.filePath].data, size |-> SizeLimit])))
    /\ UNCHANGED <<now, db, nextId, writes, lastCrud, ocrIn, built>>

\* client.processDocument(request) settles; the paragraphs are built and
\* Packer.toBuffer(docx) is awaited
OcrDone(r, docs) ==
    /\ reqs[r].pc = "ocr"
    /\ \/ reqs' = [reqs EXCEPT ![r] = Catch(@, "processDocument failed")]
       \/ \E d \in docs :
             reqs' = [reqs EXCEPT ![r] = [@ EXCEPT !.pc = "pack", !.doc = d,
                                                   !.day = DateAt(now),
                                                   !.docFileName = DocFileName(now)]]
    /\ UNCHANGED <<now, files, db, nextId, writes, lastCrud, ocrIn, built>>

\* Packer.toBuffer(docx) settles; the .docx is written, userId is checked and
\* DocumentModel.create is awaited
PackDone(r) ==
    /\ reqs[r].pc = "pack"
    /\ LET q == reqs[r]
       IN  \/ /\ \E msg \in {"toBuffer failed", "EACCES"} :
                    reqs' = [reqs EXCEPT ![r] = Catch(q, msg)]
              /\ UNCHANGED <<files, writes>>
           \/ /\ files' = WriteFileSync(files, q.docFileName, BuildDocx(OcrDocs[q.doc]))
              /\ writes' = Append(writes, <<r, q.docFileName>>)
              /\ reqs' = [reqs EXCEPT ![r] =
                            IF Falsy(q.userId)
                            THEN [Send(q, ErrResp(401, "Missing userId")) EXCEPT !.pc = "done"]
                            ELSE [q EXCEPT !.pc = "create", !.stamp = now]]
    /\ UNCHANGED <<now, db, nextId, lastCrud, ocrIn, built>>

\* fs.unlinkSync(req.file.path); if (filePath !== req.file.path) fs.unlinkSync(filePath)
Cleanup(q, F) ==
    IF q.file \notin DOMAIN F
    THEN [req |-> Catch(q, "ENOENT"), files |-> F]
    ELSE IF q.filePath = q.file
    THEN [req |-> [q EXCEPT !.pc = "done"], files |-> Remove(F, q.file)]
    ELSE IF q.filePath \notin DOMAIN Remove(F, q.file)
    THEN [req |-> Catch(q, "ENOENT"), files |-> Remove(F, q.file)]
    ELSE [req |-> [q EXCEPT !.pc = "done"], files |-> Remove(Remove(F, q.file), q.filePath)]

NewDoc(q, id) ==
    [id |-> id,
     userId |-> q.userId.val,
     name |-> q.docFileName,
     url |-> ServerUrl \o <<"/">> \o q.docFileName,
     text |-> OcrDocs[q.doc].text,
     uploadedAt |-> q.stamp]

\* DocumentModel.create settles; 201 is sent and the temporary files are removed
CreateDone(r) ==
    /\ reqs[r].pc = "create"
    /\ LET q == reqs[r]
           newDoc == NewDoc(q, nextId)
       IN  \/ /\ reqs' = [reqs EXCEPT ![r] = Catch(q, "store error")]
              /\ UNCHANGED <<files, db, nextId>>
           \/ /\ db' = Put(db, nextId, newDoc)
              /\ nextId' = nextId + 1
              /\ Commit(r, Cleanup(Send(q, [status |-> 201, error |-> "",
                                            text |-> newDoc.text,
                                            docxUrl |-> newDoc.url,
                                            document |-> newDoc]),
                                   files))
    /\ UNCHANGED <<now, writes, lastCrud, ocrIn, built>>

Tick ==
    /\ now < MaxTime
    /\ now' = now + 1
    /\ UNCHANGED <<files, db, nextId, reqs, writes, lastCrud, ocrIn, built>>

(***************************************************************************)
(* GET /documents, PATCH /documents/:id, DELETE /documents/:id.            *)
(***************************************************************************)
NoCrud ==
    [op |-> "", id |-> 0, userId |-> Absent, name |-> <<>>,
     status |-> 0, error |-> "", err |-> "", body |-> <<>>]

Answer(op, id, u, n, status, error, err, body) ==
    [op |-> op, id |-> id, userId |-> u, name |-> n,
     status |-> status, error |-> error, err |-> err, body |-> body]

\* req.query.userId: a string or absent
QueryUserIds == FormUserIds

\* the ids a caller may send: every _id the store can have handed out
Ids == 1..MaxPosts

Get(u) ==
    /\ \/ /\ Falsy(u)
          /\ lastCrud' = Answer("GET", 0, u, <<>>, 401, "Unauthorized", "", <<>>)
       \/ /\ ~Falsy(u)
          /\ lastCrud' = Answer("GET", 0, u, <<>>, 500, "Failed to fetch documents",
                                "store error", <<>>)
       \/ /\ ~Falsy(u)
          /\ \E order \in SortedDesc(FindIds(u)) :
                lastCrud' = Answer("GET", 0, u, <<>>, 200, "", "",
                                   [i \in DOMAIN order |-> db[order[i]]])
    /\ UNCHANGED <<now, files, db, nextId, reqs, writes, ocrIn, built>>

Patch(id, u, n) ==
    /\ \/ /\ lastCrud' = Answer("PATCH", id, u, n, 500, "Failed to rename document",
                                "store error", <<>>)
          /\ db' = db
       \/ /\ id \notin FindIds(u)
          /\ lastCrud' = Answer("PATCH", id, u, n, 404, "", "", <<>>)
          /\ db' = db
       \/ /\ id \in FindIds(u)
          /\ db' = [db EXCEPT ![id].name = n]
          /\ lastCrud' = Answer("PATCH", id, u, n, 200, "", "", <<db'[id]>>)
    /\ UNCHANGED <<now, files, nextId, reqs, writes, ocrIn, built>>

Delete(id, u) ==
    /\ \/ /\ lastCrud' = Answer("DELETE", id, u, <<>>, 500, "Failed to delete document",
                                "store error", <<>>)
          /\ db' = db
       \/ /\ id \notin FindIds(u)
          /\ lastCrud' = Answer("DELETE", id, u, <<>>, 404, "", "", <<>>)
          /\ db' = db
       \/ /\ id \in FindIds(u)
          /\ db' = Remove(db, id)
          /\ lastCrud' = Answer("DELETE", id, u, <<>>, 200, "", "", <<>>)
    /\ UNCHANGED <<now, files, nextId, reqs, writes, ocrIn, built>>

PostStep(r) ==
    \/ PostArrive(r, Uploads)
    \/ ConvertDone(r)
    \/ ResizeDone(r)
    \/ OcrDone(r, DOMAIN OcrDocs)
    \/ PackDone(r)
    \/ CreateDone(r)

GetStep == \E u \in QueryUserIds : Get(u)
PatchStep == \E id \in Ids, u \in JsonUserIds, n \in NewNames : Patch(id, u, n)
DeleteStep == \E id \in Ids, u \in JsonUserIds : Delete(id, u)

\* the whole system: POST /ocr requests in flight together, and the store's routes
Next ==
    \/ \E r \in Slots : PostStep(r)
    \/ Tick
    \/ GetStep
    \/ PatchStep
    \/ DeleteStep

\* the POST /ocr requests alone, in flight together
NextPosts ==
    \/ \E r \in Slots : PostStep(r)
    \/ Tick

\* no POST /ocr handler is between two of its awaits
Quiet == \A r \in Slots : reqs[r].pc \in {"idle", "done"}

\* the store's routes, with the POST /ocr requests arriving one after the other,
\* each with an upload that needs no normalisation
NextStore ==
    \/ \E r \in Slots : Quiet /\ PostArrive(r, PlainUploads)
    \/ \E r \in Slots : OcrDone(r, {1}) \/ PackDone(r) \/ CreateDone(r)
    \/ Tick
    \/ GetStep
    \/ PatchStep
    \/ DeleteStep

NextBuild ==
    \/ AddPage /\ UNCHANGED <<now, files, db, nextId, reqs, writes, lastCrud>>
    \/ AddParagraph /\ UNCHANGED <<now, files, db, nextId, reqs, writes, lastCrud>>
    \/ AddSegment /\ UNCHANGED <<now, files, db, nextId, reqs, writes, lastCrud>>

InitSystem ==
    /\ now = 0
    /\ files = <<>>
    /\ db = <<>>
    /\ nextId = 1
    /\ reqs = [r \in Slots |-> IdleReq]
    /\ writes = <<>>
    /\ lastCrud = NoCrud

NoBuild ==
    /\ ocrIn = [text |-> <<>>, pages |-> <<>>]
    /\ built = <<>>

Init == InitSystem /\ NoBuild

Spec == Init /\ [][Next]_vars

SpecPosts == Init /\ [][NextPosts]_vars

SpecStore == Init /\ [][NextStore]_vars

InitBuild == InitOcr /\ InitSystem

SpecBuild == InitBuild /\ [][NextBuild]_vars

(***************************************************************************)
(* Properties.                                                             *)
(***************************************************************************)
Done(r) == reqs[r].pc = "done"
GotFile(r) == reqs[r].file # <<>>
Answered201(r) == reqs[r].resp.status = 201

C2_WrongOwnerNotFound ==
    [][\A id \in Ids, u \in JsonUserIds :
          (/\ id \in DOMAIN db
           /\ u # Str(db[id].userId)
           /\ (Delete(id, u) \/ \E n \in NewNames : Patch(id, u, n)))
          => /\ lastCrud'.err = "" => lastCrud'.status = 404
             /\ db' = db]_vars

\* C3 as claimed: every finished POST /ocr that carried a file and no userId
\* was answered 401 { error: "Missing userId" }.
C3_Always401 ==
    \A r \in Slots :
       (Done(r) /\ GotFile(r) /\ reqs[r].userId = Absent)
       => reqs[r].resp = ErrResp(401, "Missing userId")

\* C3 as amended: a finished POST /ocr that carried a file and no userId was
\* answered 401 { error: "Missing userId" } when no step before the userId
\* check threw and 500 with the error's message when one did; either way it
\* created no record (every record ever created belongs to a 201 response).
C3_MissingUserId ==
    /\ \A r \in Slots :
          (Done(r) /\ GotFile(r) /\ reqs[r].userId = Absent)
          => /\ reqs[r].err = "" => reqs[r].resp = ErrResp(401, "Missing userId")
             /\ reqs[r].err # "" => reqs[r].resp = ErrResp(500, reqs[r].err)
             /\ reqs[r].resp.document = NoRecord
    /\ nextId - 1 = Cardinality({r \in Slots : Answered201(r)})

C3_Witness ==
    \E r \in Slots :
       /\ Done(r) /\ GotFile(r) /\ reqs[r].userId = Absent
       /\ reqs[r].resp.status = 401
       /\ reqs[r].docFileName \in DOMAIN files

\* C4: when a POST /ocr that received a file has finished, the uploaded file
\* and every file the Format Normalizer derived from it are gone from the
\* upload directory.
C4_TempFilesRemoved ==
    \A r \in Slots :
       (Done(r) /\ GotFile(r))
       => ({reqs[r].file} \cup reqs[r].derived) \cap DOMAIN files = {}

Alive(r) == reqs[r].resp.document.id \in DOMAIN db

UrlCount(body, url) == Cardinality({i \in DOMAIN body : body[i].url = url})
IdCount(body, id) == Cardinality({i \in DOMAIN body : body[i].id = id})

\* C5 as claimed: after a POST /ocr of u was answered 201 with docxUrl d, d
\* ends in .docx and a GET /documents?userId=u answered 200 (the record not
\* deleted meanwhile) lists exactly one record whose url is d.
C5_ExactlyOneUrl ==
    [][\A u \in QueryUserIds, r \in Slots :
          (Answered201(r) /\ reqs[r].userId = u /\ Alive(r)
           /\ lastCrud'.op = "GET" /\ lastCrud'.status = 200 /\ Get(u))
          => /\ EndsWith(reqs[r].resp.docxUrl, <<".", "d", "o", "c", "x">>)
             /\ UrlCount(lastCrud'.body, reqs[r].resp.docxUrl) = 1]_vars

\* C5 as amended: after a POST /ocr of u was answered 201 with docxUrl d, d
\* ends in .docx and, until the created record is deleted, a GET
\* /documents?userId=u answered 200 lists the created record exactly once, with
\* url d; it lists exactly one record with url d unless another record of u
\* that is not deleted came from a POST /ocr that computed the same file name.
C5_CreatedRecordListed ==
    [][\A u \in QueryUserIds, r \in Slots :
          (Answered201(r) /\ reqs[r].userId = u /\ Alive(r)
           /\ lastCrud'.op = "GET" /\ lastCrud'.status = 200 /\ Get(u))
          => LET d == reqs[r].resp.docxUrl
                 body == lastCrud'.body
             IN  /\ EndsWith(d, <<".", "d", "o", "c", "x">>)
                 /\ IdCount(body, reqs[r].resp.document.id) = 1
                 /\ \A i \in DOMAIN body :
                       body[i].id = reqs[r].resp.document.id => body[i].url = d
                 /\ \/ UrlCount(body, d) = 1
                    \/ \E r2 \in Slots \ {r} :
                          /\ Answered201(r2) /\ reqs[r2].userId = u /\ Alive(r2)
                          /\ reqs[r2].docFileName = reqs[r].docFileName]_vars

C5_Witness ==
    /\ lastCrud.op = "GET" /\ lastCrud.status = 200
    /\ \E r \in Slots :
          /\ Answered201(r) /\ reqs[r].userId = lastCrud.userId
          /\ UrlCount(lastCrud.body, reqs[r].resp.docxUrl) = 2
          /\ IdCount(lastCrud.body, reqs[r].resp.document.id) = 1

\* C6: a record appears only with the 201 of a POST /ocr; while it exists its
\* userId, url, text and uploadedAt never change and its name changes only by
\* a PATCH with its id and its owner's userId; it disappears only by a DELETE
\* with its id and its owner's userId; a PATCH or DELETE of one id leaves every
\* other record as it was.
C6_Lifecycle ==
    [][\A id \in DOMAIN db \cup DOMAIN db' :
          /\ id \notin DOMAIN db =>
                \E r \in Slots :
                   /\ reqs[r].pc = "create" /\ reqs[r].doc # 0
                   /\ reqs'[r].resp.status = 201
                   /\ reqs'[r].resp.document = db'[id]
          /\ (id \in DOMAIN db /\ id \in DOMAIN db') =>
                /\ db'[id].userId = db[id].userId
                /\ db'[id].url = db[id].url
                /\ db'[id].text = db[id].text
                /\ db'[id].uploadedAt = db[id].uploadedAt
                /\ db'[id].name # db[id].name =>
                      \E n \in NewNames : Patch(id, Str(db[id].userId), n)
          /\ id \notin DOMAIN db' => Delete(id, Str(db[id].userId))
          /\ \A u \in JsonUserIds :
                (Delete(id, u) \/ \E n \in NewNames : Patch(id, u, n))
                => \A j \in DOMAIN db \ {id} : j \in DOMAIN db' /\ db'[j] = db[j]]_vars

RouteMessage(op) ==
    CASE op = "GET" -> "Failed to fetch documents"
      [] op = "PATCH" -> "Failed to rename document"
      [] op = "DELETE" -> "Failed to delete document"
      [] OTHER -> ""

\* C7 as claimed: on every route a failure of the store, the OCR service, the
\* file system or the serializer is answered 500 with the error's message as
\* the body's error field.
C7_ErrorMessageExposed ==
    /\ lastCrud.err # "" => (lastCrud.status = 500 /\ lastCrud.error = lastCrud.err)
    /\ \A r \in Slots :
          (reqs[r].err # "" /\ reqs[r].sends = 1)
          => reqs[r].resp = ErrResp(500, reqs[r].err)

\* C7 as amended: a POST /ocr step that throws before a response was sent ends
\* the request (no step runs again) with 500 and the error's message as the
\* body's error field; a store failure in GET /documents, PATCH and DELETE
\* /documents/:id is answered 500 with the route's fixed message ("Failed to
\* fetch documents", "Failed to rename document", "Failed to delete document"),
\* not the error's message, and is not retried.
C7_Failure500 ==
    /\ lastCrud.err # "" =>
          /\ lastCrud.status = 500
          /\ lastCrud.error = RouteMessage(lastCrud.op)
          /\ lastCrud.body = <<>>
    /\ \A r \in Slots :
          reqs[r].err # "" =>
             /\ Done(r)
             /\ reqs[r].sends = 1 => reqs[r].resp = ErrResp(500, reqs[r].err)

C7_Witness ==
    /\ lastCrud.err # "" /\ lastCrud.status = 500
    /\ \E r \in Slots : reqs[r].err = "processDocument failed" /\ reqs[r].resp.status = 500

\* the request whose write of file name f is the latest
LastWriter(f) ==
    LET at == {i \in DOMAIN writes : writes[i][2] = f}
    IN  writes[CHOOSE i \in at : \A j \in at : j <= i][1]

Written == {writes[i][2] : i \in DOMAIN writes}

\* C8: two POST /ocr requests that compute the output file name on the same
\* calendar day compute the same name; a written output file always holds the
\* document of the request that wrote it last; the records two such requests
\* create carry the same name and url.
C8_LastWriterWins ==
    /\ \A f \in Written :
          /\ f \in DOMAIN files
          /\ files[f].data = BuildDocx(OcrDocs[reqs[LastWriter(f)].doc])
    /\ \A r1, r2 \in Slots :
          (reqs[r1].day # NoDate /\ reqs[r1].day = reqs[r2].day)
          => /\ reqs[r1].docFileName = reqs[r2].docFileName
             /\ (Answered201(r1) /\ Answered201(r2))
                => /\ reqs[r1].resp.document.name = reqs[r2].resp.document.name
                   /\ reqs[r1].resp.document.url = reqs[r2].resp.document.url

C8_Witness ==
    /\ Len(writes) = 2
    /\ writes[1][2] = writes[2][2]
    /\ writes[1][1] # writes[2][1]
    /\ reqs[writes[1][1]].doc # reqs[writes[2][1]].doc
    /\ \A r \in Slots : Answered201(r) /\ reqs[r].day = DateAt(0)

\* C9: the POST /ocr handler calls res.json at most once per request.
C9_OneResponse == \A r \in Slots : reqs[r].sends <= 1

\* the number of paragraphs on the pages before page p
ParasBefore(pages, p) == SumLen(SubSeq(pages, 1, p - 1))

\* the characters of text at positions start < i <= end
Chars(text, segment) ==
    LET start == IF segment.startIndex = Missing THEN 0 ELSE segment.startIndex
        end == IF segment.endIndex = Missing THEN 0 ELSE segment.endIndex
    IN  SubSeq(text, start + 1, Min(end, Len(text)))

\* C10: the builder emits one paragraph per OCR paragraph, in page order then
\* paragraph order, each with one run per text segment, in segment order,
\* whose text is the full text from the segment's start offset to its end
\* offset (a missing offset is 0) followed by one space.
C10_BuilderOrder ==
    /\ Len(built) = SumLen(ocrIn.pages)
    /\ \A p \in DOMAIN ocrIn.pages :
          \A q \in DOMAIN ocrIn.pages[p] :
             LET para == ocrIn.pages[p][q]
                 out == built[ParasBefore(ocrIn.pages, p) + q]
             IN  /\ Len(out.children) = Len(para.segs)
                 /\ \A j \in DOMAIN para.segs :
                       out.children[j].text = Chars(ocrIn.text, para.segs[j]) \o <<" ">>

C10_Witness ==
    /\ ocrIn.text = <<"a", "b", "c">>
    /\ Len(ocrIn.pages) = 2
    /\ \A p \in DOMAIN ocrIn.pages :
          Len(ocrIn.pages[p]) = 1 /\ Len(ocrIn.pages[p][1].segs) = 2
    /\ Len(built) = 2
    /\ built[2].children[1].text = <<"a", " ">>
    /\ built[2].children[2].text = <<"b", "c", " ">>

====
